---- MODULE Spec2Model ----
(***************************************************************************)
(* Model of the beacon-go allele query: the Query value, its validation    *)
(* (ValidateInput / validateCoordinates), the predicate it is turned into  *)
(* (whereClause / bqCoordinatesToWhereClause) and the request handlers     *)
(* that parse a request, validate it, execute it and write the response.   *)
(*                                                                         *)
(* The repository holds several historical variants of the same logic;     *)
(* the variable `variant` selects the deployment that is running:          *)
(*   "main"     src/api/api.go + src/unnamed/part_002                       *)
(*   "strict"   src/beacon/beacon.go (alternate bases mandatory)           *)
(*   "coords"   src/beacon.go:68 + src/query.go (no alternate bases)       *)
(*   "startend" src/unnamed/part_000:1-252 (start / end only)              *)
(*   "legacy"   src/unnamed/part_000:254-446 (single coordinate)           *)
(*                                                                         *)
(* Strings are sequences of one-character strings, "" is << >>.            *)
(* A *int64 is a set: {} is nil, {n} points to n.                          *)
(* A Go error is a sequence of message parts, << >> is the nil error;      *)
(* fmt.Errorf("ctx: %v", err) puts the context in front of err.            *)
(***************************************************************************)
EXTENDS Integers, Sequences, FiniteSets, TLC

VARIABLES variant, cfgOK, beaconInfo, about, pc, q, verr, executed, collab, result,
          predicate, resp

vars == <<variant, cfgOK, beaconInfo, about, pc, q, verr, executed, collab, result,
          predicate, resp>>

-----------------------------------------------------------------------------
(* Bounds of the model *)

\* longest allele string drawn by the allele-syntax specification
MaxLen == 2

\* coordinate values are drawn from 0..MaxCoord
MaxCoord == 1

\* the row counts the execution collaborator answers are 0..MaxCount
MaxCount == 1

-----------------------------------------------------------------------------
(* Values *)

Variants == {"main", "strict", "coords", "startend", "legacy"}

\* the variants whose Query has the six coordinate fields
FullVariants == {"main", "strict", "coords"}

Nil == {}

Ptr(n) == {n}

\* what reading through a nil pointer gives: the run-time panic
NilDereference == "nil pointer dereference"

\* *p
Deref(p) == IF p = Nil THEN NilDereference ELSE CHOOSE n \in p : TRUE

CoordValues == {Nil} \cup {Ptr(n) : n \in 0..MaxCoord}

\* characters a client may send in an allele string
Chars == {"A", "C", "G", "T", "N", "X", "a"}

RECURSIVE StringsOver(_, _)
StringsOver(alphabet, n) ==
    IF n = 0 THEN {<< >>}
    ELSE LET shorter == StringsOver(alphabet, n - 1)
         IN  shorter \cup {Append(s, c) : s \in {t \in shorter : Len(t) = n - 1}, c \in alphabet}

\* allele strings drawn by the allele-syntax specification
AlleleStrings == StringsOver(Chars, MaxLen)

\* allele strings drawn by the request handlers: empty, valid, N, invalid
AlleleSamples == {<< >>, <<"A">>, <<"N">>, <<"a">>}

\* reference names drawn by the request handlers
RefNames == {<< >>, <<"1">>}

NoError == << >>

Errorf(context, err) == <<context>> \o err

-----------------------------------------------------------------------------
(* basesRegex = ^([ACGT]+|N)$ run as an automaton over the whole text:     *)
(* state "start", "acgt" (inside [ACGT]+), "n" (after N), "dead".          *)

\* basesRegex with N inside the character class: ^[ACGTN]+$
RegexStep_NInClass(state, c) ==
    CASE state = "start" /\ c \in {"A", "C", "G", "T", "N"} -> "acgt"
      [] state = "acgt"  /\ c \in {"A", "C", "G", "T", "N"} -> "acgt"
      [] OTHER                                               -> "dead"

RegexStep(state, c) ==
    CASE state = "start" /\ c \in {"A", "C", "G", "T"} -> "acgt"
      [] state = "start" /\ c = "N"                     -> "n"
      [] state = "acgt"  /\ c \in {"A", "C", "G", "T"} -> "acgt"
      [] OTHER                                          -> "dead"

RECURSIVE RegexRun(_, _)
RegexRun(state, s) ==
    IF s = << >> THEN state ELSE RegexRun(RegexStep(state, Head(s)), Tail(s))

basesRegexMatchString(s) == RegexRun("start", s) \in {"acgt", "n"}

-----------------------------------------------------------------------------
(* Query.validateCoordinates, the same text in the three full variants *)

\* a precise position that needs both start and end
precisePosition_EndRequired(qq) ==
    qq.Start # Nil /\ qq.End # Nil

precisePosition(qq) ==
    qq.Start # Nil /\ (qq.End # Nil \/ qq.ReferenceBases # << >>)

imprecisePosition(qq) ==
    qq.StartMin # Nil /\ qq.StartMax # Nil /\ qq.EndMin # Nil /\ qq.EndMax # Nil

\* validateCoordinates that accepts as soon as one mode holds, before it
\* looks for the conflict
validateCoordinates_NoConflict(qq) ==
    IF precisePosition(qq) \/ imprecisePosition(qq)
    THEN NoError
    ELSE IF \/ (qq.Start # Nil /\ qq.End # Nil)
            \/ qq.StartMin # Nil \/ qq.StartMax # Nil
            \/ qq.EndMin # Nil \/ qq.EndMax # Nil
    THEN <<"restrictions not met for provided coordinates">>
    ELSE NoError

validateCoordinates(qq) ==
    IF precisePosition(qq) /\ imprecisePosition(qq)
    THEN <<"please query either precise or imprecise position">>
    ELSE IF precisePosition(qq) \/ imprecisePosition(qq)
    THEN NoError
    ELSE IF \/ (qq.Start # Nil /\ qq.End # Nil)
            \/ qq.StartMin # Nil \/ qq.StartMax # Nil
            \/ qq.EndMin # Nil \/ qq.EndMax # Nil
    THEN <<"restrictions not met for provided coordinates">>
    ELSE NoError

\* validateCoordinates of the start/end variant
validateCoordinatesStartEnd(qq) ==
    IF qq.Start # Nil /\ (qq.End # Nil \/ qq.ReferenceBases # << >>)
    THEN NoError
    ELSE <<"coordinate requirements not met">>

WrapCoordinates(err) ==
    IF err = NoError THEN NoError ELSE Errorf("validating coordinates", err)

-----------------------------------------------------------------------------
(* Query.ValidateInput, one definition per variant *)

\* ValidateInput that looks at the reference bases before the reference name
ValidateInputMain_BasesFirst(qq) ==
    IF qq.ReferenceBases = << >> THEN <<"missing reference bases">>
    ELSE IF ~basesRegexMatchString(qq.ReferenceBases)
    THEN <<"invalid value for reference bases">>
    ELSE IF qq.ReferenceName = << >> THEN <<"missing reference name">>
    ELSE IF qq.AlternateBases # << >> /\ ~basesRegexMatchString(qq.AlternateBases)
    THEN <<"invalid value for alternate bases">>
    ELSE WrapCoordinates(validateCoordinates(qq))

\* ValidateInput that checks the alternate bases before the reference bases
ValidateInputMain_AlternateFirst(qq) ==
    IF qq.ReferenceName = << >> THEN <<"missing reference name">>
    ELSE IF qq.AlternateBases # << >> /\ ~basesRegexMatchString(qq.AlternateBases)
    THEN <<"invalid value for alternate bases">>
    ELSE IF qq.ReferenceBases = << >> THEN <<"missing reference bases">>
    ELSE IF ~basesRegexMatchString(qq.ReferenceBases)
    THEN <<"invalid value for reference bases">>
    ELSE WrapCoordinates(validateCoordinates(qq))

ValidateInputMain(qq) ==
    IF qq.ReferenceName = << >> THEN <<"missing reference name">>
    ELSE IF qq.ReferenceBases = << >> THEN <<"missing reference bases">>
    ELSE IF ~basesRegexMatchString(qq.ReferenceBases)
    THEN <<"invalid value for reference bases">>
    ELSE IF qq.AlternateBases # << >> /\ ~basesRegexMatchString(qq.AlternateBases)
    THEN <<"invalid value for alternate bases">>
    ELSE WrapCoordinates(validateCoordinates(qq))

\* ValidateInput of the strict variant without the presence test
ValidateInputStrict_AlternateOptional(qq) ==
    IF qq.ReferenceName = << >> THEN <<"missing reference name">>
    ELSE IF qq.ReferenceBases = << >> THEN <<"missing reference bases">>
    ELSE IF ~basesRegexMatchString(qq.ReferenceBases)
    THEN <<"invalid value for reference bases">>
    ELSE IF qq.AlternateBases # << >> /\ ~basesRegexMatchString(qq.AlternateBases)
    THEN <<"invalid value for alternate bases">>
    ELSE WrapCoordinates(validateCoordinates(qq))

ValidateInputStrict(qq) ==
    IF qq.ReferenceName = << >> THEN <<"missing reference name">>
    ELSE IF qq.ReferenceBases = << >> THEN <<"missing reference bases">>
    ELSE IF ~basesRegexMatchString(qq.ReferenceBases)
    THEN <<"invalid value for reference bases">>
    ELSE IF qq.AlternateBases = << >> THEN <<"missing alternate bases">>
    ELSE IF ~basesRegexMatchString(qq.AlternateBases)
    THEN <<"invalid value for alternate bases">>
    ELSE WrapCoordinates(validateCoordinates(qq))

ValidateInputCoords(qq) ==
    IF qq.ReferenceName = << >> THEN <<"missing chromosome name">>
    ELSE IF qq.ReferenceBases = << >> THEN <<"missing referenceBases">>
    ELSE WrapCoordinates(validateCoordinates(qq))

validateInputStartEnd(qq) ==
    IF qq.ReferenceName = << >> THEN <<"missing referenceName">>
    ELSE IF qq.ReferenceBases = << >> THEN <<"missing referenceBases">>
    ELSE WrapCoordinates(validateCoordinatesStartEnd(qq))

ValidateInput(v, qq) ==
    CASE v = "main"     -> ValidateInputMain(qq)
      [] v = "strict"   -> ValidateInputStrict(qq)
      [] v = "coords"   -> ValidateInputCoords(qq)
      [] v = "startend" -> validateInputStartEnd(qq)

-----------------------------------------------------------------------------
(* The predicate: a text, here a sequence of tokens.  A column name, an     *)
(* operator, a quote and AND are one token each, a string value is spliced  *)
(* in character by character and a number is printed with %d.               *)

RECURSIVE Join(_, _)
Join(clauses, sep) ==
    IF clauses = << >> THEN << >>
    ELSE IF Len(clauses) = 1 THEN Head(clauses)
    ELSE Head(clauses) \o sep \o Join(Tail(clauses), sep)

And == <<"AND">>

Sprintd(p) == ToString(Deref(p))

\* simpleClause: "%s='%s'", nothing when the column or the value is empty
simpleClause(dbColumn, value) ==
    IF dbColumn # "" /\ value # << >>
    THEN << <<dbColumn, "=", "'">> \o value \o <<"'">> >>
    ELSE << >>

\* the membership clause of the main variant on the repeated column
\* the membership clause emitted also for an empty alternateBases
alternateBasesClause_Always(qq) ==
    << <<"(SELECT count(*) FROM UNNEST(alternate_bases) AS alt WHERE alt IN (", "'">>
       \o qq.AlternateBases \o <<"'", ") ) > 0">> >>

alternateBasesClause(qq) ==
    IF qq.AlternateBases # << >>
    THEN << <<"(SELECT count(*) FROM UNNEST(alternate_bases) AS alt WHERE alt IN (", "'">>
            \o qq.AlternateBases \o <<"'", ") ) > 0">> >>
    ELSE << >>

\* the precise clause that prints the end coordinate without testing it
preciseClause_EndUnchecked(qq) ==
    <<"v.start", "=", Sprintd(qq.Start), "AND", Sprintd(qq.End), "=", "v.end">>

\* the precise clause without the end column
preciseClause_StartOnly(qq) ==
    <<"v.start", "=", Sprintd(qq.Start)>>

preciseClause(qq) ==
    IF qq.End # Nil
    THEN <<"v.start", "=", Sprintd(qq.Start), "AND", Sprintd(qq.End), "=", "v.end">>
    ELSE <<"v.start", "=", Sprintd(qq.Start)>>

\* the imprecise clause with the lower bounds taken from each other's field
impreciseClause_CrossedBounds(qq) ==
    <<Sprintd(qq.EndMin), "<=", "v.start", "AND", "v.start", "<=", Sprintd(qq.StartMax),
      "AND", Sprintd(qq.StartMin), "<=", "v.end", "AND", "v.end", "<=", Sprintd(qq.EndMax)>>

impreciseClause(qq) ==
    <<Sprintd(qq.StartMin), "<=", "v.start", "AND", "v.start", "<=", Sprintd(qq.StartMax),
      "AND", Sprintd(qq.EndMin), "<=", "v.end", "AND", "v.end", "<=", Sprintd(qq.EndMax)>>

\* main variant: the two clauses are added independently of each other
bqCoordinatesToWhereClauseMain(qq) ==
    (IF qq.Start # Nil THEN <<preciseClause(qq)>> ELSE << >>)
    \o (IF imprecisePosition(qq) THEN <<impreciseClause(qq)>> ELSE << >>)

\* strict and coords variants: one string, "" when no mode applies;
\* add() drops the empty string
bqCoordinatesToWhereClause(qq) ==
    IF qq.Start # Nil THEN <<preciseClause(qq)>>
    ELSE IF imprecisePosition(qq) THEN <<impreciseClause(qq)>>
    ELSE << >>

\* whereClause that adds the alternate bases before the reference bases
whereClauseMain_AlternateSecond(qq) ==
    Join(simpleClause("reference_name", qq.ReferenceName)
         \o alternateBasesClause(qq)
         \o simpleClause("reference_bases", qq.ReferenceBases)
         \o bqCoordinatesToWhereClauseMain(qq), And)

whereClauseMain(qq) ==
    Join(simpleClause("reference_name", qq.ReferenceName)
         \o simpleClause("reference_bases", qq.ReferenceBases)
         \o alternateBasesClause(qq)
         \o bqCoordinatesToWhereClauseMain(qq), And)

whereClauseStrict(qq) ==
    Join(simpleClause("reference_name", qq.ReferenceName)
         \o simpleClause("reference_bases", qq.ReferenceBases)
         \o simpleClause("alternate_bases", qq.AlternateBases)
         \o bqCoordinatesToWhereClause(qq), And)

whereClauseCoords(qq) ==
    Join(simpleClause("reference_name", qq.ReferenceName)
         \o simpleClause("reference_bases", qq.ReferenceBases)
         \o bqCoordinatesToWhereClause(qq), And)

\* where.append: every statement is put in parentheses, "" is skipped
Paren(statement) ==
    IF statement = << >> THEN << >> ELSE << <<"(">> \o statement \o <<")">> >>

bqCoordinatesToWhereClauseStartEnd(qq) ==
    IF qq.Start # Nil THEN preciseClause(qq) ELSE << >>

whereClauseStartEnd(qq) ==
    Join(Paren(<<"reference_name", "=", "'">> \o qq.ReferenceName \o <<"'">>)
         \o Paren(bqCoordinatesToWhereClauseStartEnd(qq))
         \o Paren(<<"reference_bases", "=", "'">> \o qq.ReferenceBases \o <<"'">>), And)

\* legacy: the fixed text of genomeExists, printed with coord and coord+1
whereClauseLegacy(qq) ==
    <<"reference_name", "=", "'">> \o qq.ReferenceName \o <<"'">>
    \o <<"AND", "v.start", "<=", ToString(Deref(qq.Start)),
         "AND", ToString(Deref(qq.Start) + 1), "<", "v.end">>
    \o <<"AND", "reference_bases", "=", "'">> \o qq.ReferenceBases \o <<"'">>

whereClause(v, qq) ==
    CASE v = "main"     -> whereClauseMain(qq)
      [] v = "strict"   -> whereClauseStrict(qq)
      [] v = "coords"   -> whereClauseCoords(qq)
      [] v = "startend" -> whereClauseStartEnd(qq)
      [] v = "legacy"   -> whereClauseLegacy(qq)

-----------------------------------------------------------------------------
(* Request parsing *)

CoordFields == {"Start", "End", "StartMin", "StartMax", "EndMin", "EndMax"}

ZeroQuery ==
    [ReferenceName |-> << >>, ReferenceBases |-> << >>, AlternateBases |-> << >>,
     Start |-> Nil, End |-> Nil, StartMin |-> Nil, StartMax |-> Nil,
     EndMin |-> Nil, EndMax |-> Nil]

Digits == <<"0", "1", "2", "3", "4", "5", "6", "7", "8", "9">>

IsDigit(c) == \E d \in 1..10 : Digits[d] = c

DigitValue(c) == (CHOOSE d \in 1..10 : Digits[d] = c) - 1

\* %d of a non-negative number, as the characters of its decimal form
RECURSIVE Itoa(_)
Itoa(n) == IF n < 10 THEN <<Digits[n + 1]>> ELSE Append(Itoa(n \div 10), Digits[(n % 10) + 1])

RECURSIVE ParseDigits(_, _)
ParseDigits(s, acc) ==
    IF s = << >> THEN acc ELSE ParseDigits(Tail(s), 10 * acc + DigitValue(Head(s)))

\* strconv.ParseInt(str, 10, 64) on unsigned decimal text: [ok, value]
ParseInt(str) ==
    IF str # << >> /\ \A i \in 1..Len(str) : IsDigit(str[i])
    THEN [ok |-> TRUE, value |-> ParseDigits(str, 0)]
    ELSE [ok |-> FALSE, value |-> 0]

\* getFormValueInt that uses zero as the sentinel of an absent value
getFormValueInt_ZeroIsUnset(str) ==
    IF str = << >> THEN [ok |-> TRUE, ptr |-> Nil]
    ELSE IF ParseInt(str).ok
    THEN [ok |-> TRUE,
          ptr |-> IF ParseInt(str).value = 0 THEN Nil ELSE Ptr(ParseInt(str).value)]
    ELSE [ok |-> FALSE, ptr |-> Nil]

\* getFormValueInt: "" is nil without an error, other text is parsed
getFormValueInt(str) ==
    IF str = << >> THEN [ok |-> TRUE, ptr |-> Nil]
    ELSE IF ParseInt(str).ok THEN [ok |-> TRUE, ptr |-> Ptr(ParseInt(str).value)]
    ELSE [ok |-> FALSE, ptr |-> Nil]

\* the texts a client sends as a coordinate form value
FormInts == {<< >>, <<"x">>} \cup {Itoa(n) : n \in 0..MaxCoord}

Methods == {"GET", "POST", "PUT"}

\* the alternate-bases values the variant's request can carry
AlternatesOf(v) == IF v \in {"main", "strict"} THEN AlleleSamples ELSE {<< >>}

MakeQuery(name, refBases, altBases, coords) ==
    [ReferenceName |-> name, ReferenceBases |-> refBases, AlternateBases |-> altBases,
     Start    |-> IF "Start" \in DOMAIN coords THEN coords["Start"] ELSE Nil,
     End      |-> IF "End" \in DOMAIN coords THEN coords["End"] ELSE Nil,
     StartMin |-> IF "StartMin" \in DOMAIN coords THEN coords["StartMin"] ELSE Nil,
     StartMax |-> IF "StartMax" \in DOMAIN coords THEN coords["StartMax"] ELSE Nil,
     EndMin   |-> IF "EndMin" \in DOMAIN coords THEN coords["EndMin"] ELSE Nil,
     EndMax   |-> IF "EndMax" \in DOMAIN coords THEN coords["EndMax"] ELSE Nil]

\* parseFormCoordinates: every form value goes through getFormValueInt
parseFormCoordinates(form) ==
    [ok |-> \A f \in DOMAIN form : getFormValueInt(form[f]).ok,
     coords |-> [f \in DOMAIN form |-> getFormValueInt(form[f]).ptr]]

-----------------------------------------------------------------------------
(* Responses *)

\* the API version the deployed binary announces (const beaconAPIVersion)
beaconAPIVersion == "v0.0.1"

\* no About request has been answered
NoAbout == [pc |-> "idle", status |-> 0, apiVersion |-> ""]

NoResponse ==
    [stage |-> "none", status |-> 0, kind |-> "none", errorCode |-> "",
     exists |-> Nil, message |-> << >>, apiVersion |-> ""]

\* http.Error(w, message, code)
HttpError(stage, code, message) ==
    [stage |-> stage, status |-> code, kind |-> "text", errorCode |-> "",
     exists |-> Nil, message |-> message, apiVersion |-> ""]

\* writeError that reports exists = false next to the error
JsonError_ExistsFalse(stage, code, message) ==
    [stage |-> stage, status |-> 200, kind |-> "json", errorCode |-> ToString(code),
     exists |-> Ptr(FALSE), message |-> message, apiVersion |-> ""]

\* writeError of the JSON variants: the code goes into the body
JsonError(stage, code, message) ==
    [stage |-> stage, status |-> 200, kind |-> "json", errorCode |-> ToString(code),
     exists |-> Nil, message |-> message, apiVersion |-> ""]

\* writeResponse
ExistsResponse(v, exists) ==
    [stage |-> "execute", status |-> 200,
     kind |-> IF v \in {"main", "strict"} THEN "json" ELSE "xml",
     errorCode |-> "", exists |-> Ptr(exists), message |-> << >>, apiVersion |-> ""]

\* every failure answered as a server-side failure
ErrorResponse_ServerSide(v, stage, code, message) ==
    IF v \in {"main", "strict"} /\ stage # "parse"
    THEN JsonError(stage, 500, message)
    ELSE HttpError(stage, 500, message)

\* the failure response of the variant for a handler step
ErrorResponse(v, stage, code, message) ==
    IF v \in {"main", "strict"} /\ stage # "parse"
    THEN JsonError(stage, code, message)
    ELSE HttpError(stage, code, message)

\* Execute has not been called: nothing was asked of the collaborator
NoOutcome == [fail |-> "none", count |-> 0]

NoResult == [exists |-> FALSE, err |-> NoError]

StatusBadRequest == 400

StatusPreconditionFailed == 412

StatusInternalServerError == 500

-----------------------------------------------------------------------------
(* The request handlers, one step per action *)

Init ==
    /\ variant \in Variants
    /\ cfgOK \in BOOLEAN
    /\ (variant \in {"main", "strict"} => cfgOK)
    /\ pc = "idle"
    /\ q = ZeroQuery
    /\ verr = NoError
    /\ executed = FALSE
    /\ collab = NoOutcome
    /\ result = NoResult
    /\ predicate = << >>
    /\ resp = NoResponse
    /\ beaconInfo = [APIVersion |-> ""]
    /\ about = NoAbout

\* what a handler reads in api.BeaconInfo.APIVersion: the field as it stands,
\* or, while About is assigning it without synchronisation, the old value,
\* the new one or a torn string header
ReadAPIVersion ==
    IF about.pc = "writing"
    THEN {beaconInfo.APIVersion, beaconAPIVersion, "<torn>"}
    ELSE {beaconInfo.APIVersion}

\* the handler writes its response and returns; write() of the JSON variants
\* copies api.BeaconInfo.APIVersion into it
Respond(r) ==
    /\ pc' = "done"
    /\ IF r.kind = "json"
       THEN \E v \in ReadAPIVersion : resp' = [r EXCEPT !.apiVersion = v]
       ELSE resp' = r

\* validateServerConfig fails: the handler answers before it reads the request
RejectConfig ==
    /\ pc = "idle"
    /\ ~cfgOK
    /\ Respond(IF variant = "legacy"
               THEN HttpError("config", StatusPreconditionFailed,
                              <<"validating server config", "invalid config">>)
               ELSE HttpError("config", StatusInternalServerError,
                              <<"validating server configuration">>))
    /\ UNCHANGED <<variant, cfgOK, beaconInfo, about, q, verr, executed, collab, result, predicate>>

\* parseInput of the main, strict and coords variants, and the copy into Query
ReceiveFull ==
    /\ pc = "idle"
    /\ cfgOK
    /\ variant \in FullVariants
    /\ \E method \in Methods, name \in RefNames, refBases \in AlleleSamples,
          altBases \in AlternatesOf(variant) :
          \/ /\ method = "GET"
             /\ \E form \in [CoordFields -> FormInts] :
                   LET parsed == parseFormCoordinates(form) IN
                   IF parsed.ok
                   THEN /\ q' = MakeQuery(name, refBases, altBases, parsed.coords)
                        /\ pc' = "parsed"
                        /\ resp' = resp
                   ELSE /\ q' = q
                        /\ Respond(HttpError("parse", StatusBadRequest,
                                             <<"parsing input", "parsing referenceBases">>))
          \/ /\ method = "POST"
             /\ \E decodes \in BOOLEAN, coords \in [CoordFields -> CoordValues] :
                   IF decodes
                   THEN /\ q' = MakeQuery(name, refBases, altBases, coords)
                        /\ pc' = "parsed"
                        /\ resp' = resp
                   ELSE /\ q' = q
                        /\ Respond(HttpError("parse", StatusBadRequest,
                                             <<"parsing input", "decoding request body">>))
          \/ /\ method \notin {"GET", "POST"}
             /\ q' = q
             /\ Respond(HttpError("parse", StatusBadRequest,
                                  <<"parsing input", "HTTP method not supported">>))
    /\ UNCHANGED <<variant, cfgOK, beaconInfo, about, verr, executed, collab, result, predicate>>

\* ValidateInput that drops the end coordinate of the query it checks
Validate_ClearsEnd ==
    /\ pc = "parsed"
    /\ LET err == ValidateInput(variant, q) IN
       /\ verr' = err
       /\ IF err # NoError
          THEN Respond(ErrorResponse(variant, "validate", StatusBadRequest,
                                     Errorf("validating input", err)))
          ELSE /\ pc' = "validated"
               /\ resp' = resp
    /\ q' = [q EXCEPT !.End = Nil]
    /\ UNCHANGED <<variant, cfgOK, beaconInfo, about, executed, collab, result, predicate>>

\* query.ValidateInput() in the handler of the main, strict and coords variants
Validate ==
    /\ pc = "parsed"
    /\ LET err == ValidateInput(variant, q) IN
       /\ verr' = err
       /\ IF err # NoError
          THEN Respond(ErrorResponse(variant, "validate", StatusBadRequest,
                                     Errorf("validating input", err)))
          ELSE /\ pc' = "validated"
               /\ resp' = resp
    /\ UNCHANGED <<variant, cfgOK, beaconInfo, about, q, executed, collab, result, predicate>>

\* parseInput of the start/end variant: it validates before it returns
ReceiveStartEnd ==
    /\ pc = "idle"
    /\ cfgOK
    /\ variant = "startend"
    /\ \E method \in Methods, name \in RefNames, refBases \in AlleleSamples :
          \/ /\ method = "GET"
             /\ \E form \in [{"Start", "End"} -> FormInts] :
                   LET parsed == parseFormCoordinates(form)
                       params == MakeQuery(name, refBases, << >>, parsed.coords)
                       err    == validateInputStartEnd(params)
                   IN  IF ~parsed.ok
                       THEN /\ q' = q
                            /\ verr' = verr
                            /\ Respond(HttpError("parse", StatusBadRequest,
                                                 <<"validating input", "parsing referenceBases">>))
                       ELSE /\ q' = params
                            /\ verr' = err
                            /\ IF err # NoError
                               THEN Respond(HttpError("validate", StatusBadRequest,
                                       <<"validating input", "validating input">> \o err))
                               ELSE pc' = "validated" /\ resp' = resp
          \/ /\ method = "POST"
             /\ \E decodes \in BOOLEAN, coords \in [{"Start", "End"} -> CoordValues] :
                   LET params == MakeQuery(name, refBases, << >>, coords)
                       err    == validateInputStartEnd(params)
                   IN  IF ~decodes
                       THEN /\ q' = q
                            /\ verr' = verr
                            /\ Respond(HttpError("parse", StatusBadRequest,
                                                 <<"validating input", "decoding request body">>))
                       ELSE /\ q' = params
                            /\ verr' = err
                            /\ IF err # NoError
                               THEN Respond(HttpError("validate", StatusBadRequest,
                                       <<"validating input", "validating input">> \o err))
                               ELSE pc' = "validated" /\ resp' = resp
          \/ /\ method \notin {"GET", "POST"}
             /\ q' = ZeroQuery
             /\ verr' = validateInputStartEnd(ZeroQuery)
             /\ Respond(HttpError("validate", StatusBadRequest,
                           <<"validating input", "validating input">>
                           \o validateInputStartEnd(ZeroQuery)))
    /\ UNCHANGED <<variant, cfgOK, beaconInfo, about, executed, collab, result, predicate>>

\* parseInput of the legacy variant: chromosome, allele, coordinate form values;
\* the second test repeats refName == "" and so never fires
parseInputLegacy(chromosome, allele, coordinate) ==
    IF chromosome = << >>
    THEN [err |-> <<"parsing chromosome name", "invalid input", "value is required">>,
          query |-> ZeroQuery]
    ELSE IF chromosome = << >>
    THEN [err |-> <<"parsing allele name", "invalid input", "value is required">>,
          query |-> ZeroQuery]
    ELSE IF ~ParseInt(coordinate).ok
    THEN [err |-> <<"parsing coordinate", "invalid input">>, query |-> ZeroQuery]
    ELSE [err |-> NoError,
          query |-> [ZeroQuery EXCEPT !.ReferenceName = chromosome,
                                      !.ReferenceBases = allele,
                                      !.Start = Ptr(ParseInt(coordinate).value)]]

\* the legacy handler up to genomeExists; the coordinate is kept in Start
ReceiveLegacy ==
    /\ pc = "idle"
    /\ cfgOK
    /\ variant = "legacy"
    /\ \E chromosome \in RefNames, allele \in AlleleSamples, coordinate \in FormInts :
          LET parsed == parseInputLegacy(chromosome, allele, coordinate) IN
          IF parsed.err # NoError
          THEN /\ q' = q
               /\ verr' = parsed.err
               /\ Respond(HttpError("parse", StatusBadRequest, parsed.err))
          ELSE /\ q' = parsed.query
               /\ verr' = NoError
               /\ pc' = "validated"
               /\ resp' = resp
    /\ UNCHANGED <<variant, cfgOK, beaconInfo, about, executed, collab, result, predicate>>

\* what the execution collaborator does: one of its three steps fails, or it
\* answers a row count
Outcomes ==
    {[fail |-> f, count |-> 0] : f \in {"client", "query", "read"}}
    \cup {[fail |-> "", count |-> n] : n \in 0..MaxCount}

ExecuteError(outcome) ==
    CASE outcome.fail = "client" -> <<"creating bigquery client">>
      [] outcome.fail = "query"  -> <<"querying database">>
      [] outcome.fail = "read"   -> <<"reading query result">>
      [] OTHER                   -> NoError

\* exists reported also for a count of zero
ExecuteResult_ZeroCounts(outcome) ==
    IF ExecuteError(outcome) # NoError
    THEN [exists |-> FALSE, err |-> ExecuteError(outcome)]
    ELSE [exists |-> outcome.count >= 0, err |-> NoError]

\* Query.Execute / genomeExists: (exists, error)
ExecuteResult(outcome) ==
    IF ExecuteError(outcome) # NoError
    THEN [exists |-> FALSE, err |-> ExecuteError(outcome)]
    ELSE [exists |-> outcome.count > 0, err |-> NoError]

\* a handler that executes the query without waiting for its validation
Execute_Unvalidated ==
    /\ pc \in {"parsed", "validated"}
    /\ \E outcome \in Outcomes :
          LET res == ExecuteResult(outcome) IN
          /\ collab' = outcome
          /\ result' = res
          /\ predicate' = IF variant = "legacy" /\ outcome.fail = "client"
                          THEN << >> ELSE whereClause(variant, q)
          /\ Respond(IF res.err # NoError
                     THEN ErrorResponse(variant, "execute", StatusInternalServerError,
                                        Errorf("computing result", res.err))
                     ELSE ExistsResponse(variant, res.exists))
    /\ executed' = TRUE
    /\ UNCHANGED <<variant, cfgOK, beaconInfo, about, q, verr>>

\* Execute / genomeExists and the response that follows it.  The legacy
\* variant creates the client before it builds the query text.
Execute ==
    /\ pc = "validated"
    /\ \E outcome \in Outcomes :
          LET res == ExecuteResult(outcome) IN
          /\ collab' = outcome
          /\ result' = res
          /\ predicate' = IF variant = "legacy" /\ outcome.fail = "client"
                          THEN << >> ELSE whereClause(variant, q)
          /\ Respond(IF res.err # NoError
                     THEN ErrorResponse(variant, "execute", StatusInternalServerError,
                                        Errorf("computing result", res.err))
                     ELSE ExistsResponse(variant, res.exists))
    /\ executed' = TRUE
    /\ UNCHANGED <<variant, cfgOK, beaconInfo, about, q, verr>>

\* the request is over; the server waits for the next one
NextRequest ==
    /\ pc = "done"
    /\ pc' = "idle"
    /\ q' = ZeroQuery
    /\ verr' = NoError
    /\ executed' = FALSE
    /\ collab' = NoOutcome
    /\ result' = NoResult
    /\ predicate' = << >>
    /\ resp' = NoResponse
    /\ UNCHANGED <<variant, cfgOK, beaconInfo, about>>

Next ==
    \/ RejectConfig
    \/ ReceiveFull
    \/ Validate
    \/ ReceiveStartEnd
    \/ ReceiveLegacy
    \/ Execute
    \/ NextRequest

Spec == Init /\ [][Next]_vars

\* About up to its assignment of api.BeaconInfo.APIVersion: a method other
\* than GET is answered 400; the strict variant assigns nothing and answers
\* with the BeaconInfo it was constructed with
About ==
    /\ about.pc = "idle"
    /\ variant \in {"main", "strict"}
    /\ \E method \in Methods :
          IF method # "GET"
          THEN about' = [pc |-> "idle", status |-> StatusBadRequest, apiVersion |-> ""]
          ELSE IF variant = "main"
          THEN about' = [about EXCEPT !.pc = "writing"]
          ELSE about' = [pc |-> "idle", status |-> 200,
                         apiVersion |-> beaconInfo.APIVersion]
    /\ UNCHANGED <<variant, cfgOK, beaconInfo, pc, q, verr, executed, collab, result,
                   predicate, resp>>

\* About of the main variant from the assignment on: the server's field now
\* holds beaconAPIVersion and the BeaconInfo is marshalled into the response
AboutWrite ==
    /\ about.pc = "writing"
    /\ beaconInfo' = [beaconInfo EXCEPT !.APIVersion = beaconAPIVersion]
    /\ about' = [pc |-> "idle", status |-> 200, apiVersion |-> beaconAPIVersion]
    /\ UNCHANGED <<variant, cfgOK, pc, q, verr, executed, collab, result, predicate, resp>>

\* the allele-syntax specification: ValidateInput of the two variants that
\* check the allele alphabet, on every allele text up to MaxLen characters
InitBases ==
    /\ variant \in {"main", "strict"}
    /\ cfgOK = TRUE
    /\ pc = "parsed"
    /\ \E refBases \in AlleleStrings, altBases \in AlleleStrings :
          q = [ZeroQuery EXCEPT !.ReferenceName = <<"1">>,
                                !.ReferenceBases = refBases,
                                !.AlternateBases = altBases]
    /\ verr = NoError
    /\ executed = FALSE
    /\ collab = NoOutcome
    /\ result = NoResult
    /\ predicate = << >>
    /\ resp = NoResponse
    /\ beaconInfo = [APIVersion |-> ""]
    /\ about = NoAbout

NextBases ==
    \/ Validate
    \/ Execute

SpecBases == InitBases /\ [][NextBases]_vars

\* the predicate specification: the builders on every combination of
\* coordinate fields, with a name that holds a quote character among the
\* inputs.  The main, strict and coords variants start from a parsed query;
\* the start/end and legacy variants parse their request.
BuildNames == {<<"1">>, <<"1", "'">>}

BuildAlternates(v) == IF v \in {"main", "strict"} THEN {<< >>, <<"G">>} ELSE {<< >>}

InitBuild ==
    /\ variant \in Variants
    /\ cfgOK = TRUE
    /\ IF variant \in FullVariants
       THEN /\ pc = "parsed"
            /\ \E name \in BuildNames, altBases \in BuildAlternates(variant),
                  coords \in [CoordFields -> CoordValues] :
                  q = MakeQuery(name, <<"A">>, altBases, coords)
       ELSE /\ pc = "idle"
            /\ q = ZeroQuery
    /\ verr = NoError
    /\ executed = FALSE
    /\ collab = NoOutcome
    /\ result = NoResult
    /\ predicate = << >>
    /\ resp = NoResponse
    /\ beaconInfo = [APIVersion |-> ""]
    /\ about = NoAbout

NextBuild ==
    \/ Validate
    \/ ReceiveStartEnd
    \/ ReceiveLegacy
    \/ Execute

SpecBuild == InitBuild /\ [][NextBuild]_vars

\* the server specification: the two JSON variants, constructed with any of
\* the API versions a deployment may configure, answering one Query request
\* while About requests are handled before it and concurrently with it
ConfiguredVersions == {"", "v0.0.1", "v0.4"}

ServerCoordinates == [{"Start", "End"} -> CoordValues]

InitServer ==
    /\ variant \in {"main", "strict"}
    /\ cfgOK = TRUE
    /\ beaconInfo \in [APIVersion : ConfiguredVersions]
    /\ about = NoAbout
    /\ pc = "parsed"
    /\ \E name \in RefNames, altBases \in BuildAlternates(variant),
          coords \in ServerCoordinates :
          q = MakeQuery(name, <<"A">>, altBases, coords)
    /\ verr = NoError
    /\ executed = FALSE
    /\ collab = NoOutcome
    /\ result = NoResult
    /\ predicate = << >>
    /\ resp = NoResponse

NextServer ==
    \/ About
    \/ AboutWrite
    \/ Validate
    \/ Execute

SpecServer == InitServer /\ [][NextServer]_vars

\* the builder specification: whereClause called on every query value of the
\* variants whose coordinate fields are pointers, whether or not ValidateInput
\* would accept it
BuilderVariants == {"main", "strict", "coords", "startend"}

BuilderCoordinates(v) ==
    IF v = "startend" THEN [{"Start", "End"} -> CoordValues]
    ELSE [CoordFields -> CoordValues]

InitBuilder ==
    /\ variant \in BuilderVariants
    /\ cfgOK = TRUE
    /\ pc = "parsed"
    /\ \E name \in RefNames, refBases \in {<< >>, <<"A">>},
          altBases \in BuildAlternates(variant), coords \in BuilderCoordinates(variant) :
          q = MakeQuery(name, refBases, altBases, coords)
    /\ verr = NoError
    /\ executed = FALSE
    /\ collab = NoOutcome
    /\ result = NoResult
    /\ predicate = << >>
    /\ resp = NoResponse
    /\ beaconInfo = [APIVersion |-> ""]
    /\ about = NoAbout

\* q.whereClause() on its own
Build ==
    /\ pc = "parsed"
    /\ predicate' = whereClause(variant, q)
    /\ pc' = "built"
    /\ UNCHANGED <<variant, cfgOK, beaconInfo, about, q, verr, executed, collab, result, resp>>

SpecBuilder == InitBuilder /\ [][Build]_vars

-----------------------------------------------------------------------------
(* Vocabulary of the properties *)

\* ValidateInput has run on q
Validated ==
    /\ variant \in FullVariants
    /\ \/ pc = "validated"
       \/ pc = "done" /\ resp.stage \in {"validate", "execute"}

\* ValidateInput has run on q and has accepted it
Accepted == Validated /\ verr = NoError

\* one or more of A, C, G, T, or exactly N
IsAllele(s) ==
    \/ Len(s) >= 1 /\ \A i \in 1..Len(s) : s[i] \in {"A", "C", "G", "T"}
    \/ s = <<"N">>

MissingReferenceName(v) ==
    IF v = "coords" THEN <<"missing chromosome name">> ELSE <<"missing reference name">>

MissingReferenceBases(v) ==
    IF v = "coords" THEN <<"missing referenceBases">> ELSE <<"missing reference bases">>

InvalidReferenceBases == <<"invalid value for reference bases">>

MissingAlternateBases == <<"missing alternate bases">>

InvalidAlternateBases == <<"invalid value for alternate bases">>

ConflictingCoordinateModes ==
    <<"validating coordinates", "please query either precise or imprecise position">>

IncompleteCoordinateSpecification ==
    <<"validating coordinates", "restrictions not met for provided coordinates">>

\* q passes the reference-name and the bases rules of the variant
PassesNameAndBases ==
    /\ q.ReferenceName # << >>
    /\ q.ReferenceBases # << >>
    /\ variant \in {"main", "strict"} => IsAllele(q.ReferenceBases)
    /\ variant = "main" => (q.AlternateBases = << >> \/ IsAllele(q.AlternateBases))
    /\ variant = "strict" => IsAllele(q.AlternateBases)

IsSet(f) == q[f] # Nil

ImpreciseFields == {"StartMin", "StartMax", "EndMin", "EndMax"}

PreciseMode == IsSet("Start") /\ (IsSet("End") \/ q.ReferenceBases # << >>)

ImpreciseMode == \A f \in ImpreciseFields : IsSet(f)

-----------------------------------------------------------------------------
(* Properties *)

\* C1: whenever ValidateInput has run on a query whose referenceName is empty,
\* its result is the missing-reference-name error of the variant, whatever the
\* bases and the six coordinate fields hold, and the request is answered with
\* that failure without being executed.
C1_EmptyReferenceNameFails ==
    (Validated /\ q.ReferenceName = << >>)
        => /\ verr = MissingReferenceName(variant)
           /\ pc = "done"
           /\ resp.stage = "validate"
           /\ ~executed

\* a query with an empty name, an invalid reference allele and a coordinate
\* field set has been through ValidateInput
C1_Witness ==
    /\ Validated
    /\ q.ReferenceName = << >>
    /\ q.ReferenceBases = <<"a">>
    /\ q.AlternateBases = <<"a">>
    /\ IsSet("EndMax")
    /\ verr = MissingReferenceName(variant)

\* C2: the allele-syntax check accepts a non-empty referenceBases or
\* alternateBases value exactly when it is one or more of A, C, G, T or is
\* exactly N; any other value is rejected with the invalid-value error of its
\* field.
C2_AlleleSyntax ==
    (Validated /\ variant \in {"main", "strict"} /\ q.ReferenceName # << >>)
        => /\ q.ReferenceBases # << >>
                => (verr = InvalidReferenceBases <=> ~IsAllele(q.ReferenceBases))
           /\ (IsAllele(q.ReferenceBases) /\ q.AlternateBases # << >>)
                => (verr = InvalidAlternateBases <=> ~IsAllele(q.AlternateBases))

\* the reference allele AC passed the check and the alternate allele AN was
\* rejected by it
C2_Witness ==
    /\ Validated
    /\ q.ReferenceBases = <<"A", "C">>
    /\ q.AlternateBases = <<"A", "N">>
    /\ verr = InvalidAlternateBases

\* C3: a query that passes the name and bases rules, is precise (start set and
\* either end set or referenceBases non-empty) and has all four of startMin,
\* startMax, endMin, endMax set fails with the conflicting-modes error, with
\* start and end both set as well as with start alone.
C3_ConflictingModes ==
    (Validated /\ PassesNameAndBases /\ PreciseMode /\ ImpreciseMode)
        => /\ verr = ConflictingCoordinateModes
           /\ pc = "done"
           /\ ~executed

\* start alone together with the full imprecise set has been rejected
C3_Witness ==
    /\ Validated
    /\ PassesNameAndBases
    /\ IsSet("Start") /\ ~IsSet("End")
    /\ ImpreciseMode
    /\ verr = ConflictingCoordinateModes

\* C4: a query that passes the name and bases rules and has exactly one of
\* startMin, startMax, endMin, endMax set fails with the
\* incomplete-specification error, whatever start and end are.
C4_OneImpreciseFieldFails ==
    (Validated /\ PassesNameAndBases
       /\ Cardinality({f \in ImpreciseFields : IsSet(f)}) = 1)
        => verr = IncompleteCoordinateSpecification

\* C5: a query that passes the name and bases rules, is neither precise nor
\* imprecise and has one of the six coordinate fields set fails with the
\* incomplete-specification error; so does a query with end alone.
C5_PartialCoordinatesFail ==
    (Validated /\ PassesNameAndBases /\ ~PreciseMode /\ ~ImpreciseMode
       /\ \E f \in CoordFields : IsSet(f))
        => verr = IncompleteCoordinateSpecification

\* C6: every accepted query is precise with none of the four range fields
\* set, or imprecise with neither start nor end set, or has none of the six
\* coordinate fields set.
C6_AcceptedInOneMode ==
    Accepted
        => \/ PreciseMode /\ \A f \in ImpreciseFields : ~IsSet(f)
           \/ ImpreciseMode /\ ~IsSet("Start") /\ ~IsSet("End")
           \/ \A f \in CoordFields : ~IsSet(f)

\* the rules of the variant in the order of the specification, each with
\* whether q violates it and the error it reports
RulesInOrder ==
    << [violated |-> q.ReferenceName = << >>,
        err      |-> MissingReferenceName(variant)],
       [violated |-> q.ReferenceBases = << >>,
        err      |-> MissingReferenceBases(variant)],
       [violated |-> variant \in {"main", "strict"} /\ ~IsAllele(q.ReferenceBases),
        err      |-> InvalidReferenceBases],
       [violated |-> variant = "strict" /\ q.AlternateBases = << >>,
        err      |-> MissingAlternateBases],
       [violated |-> variant \in {"main", "strict"} /\ q.AlternateBases # << >>
                       /\ ~IsAllele(q.AlternateBases),
        err      |-> InvalidAlternateBases],
       [violated |-> validateCoordinates(q) # NoError,
        err      |-> Errorf("validating coordinates", validateCoordinates(q))] >>

ViolatedRules == {i \in 1..Len(RulesInOrder) : RulesInOrder[i].violated}

\* C7: ValidateInput reports the error of the earliest violated rule in the
\* order reference name, reference bases present, reference bases syntax,
\* alternate bases present (strict), alternate bases syntax, coordinates; it
\* accepts exactly when no rule is violated.
C7_FailFastOrder ==
    Validated
        => IF ViolatedRules = {}
           THEN verr = NoError
           ELSE \E i \in ViolatedRules :
                   /\ \A j \in ViolatedRules : i <= j
                   /\ verr = RulesInOrder[i].err

\* a query that violates the reference-bases syntax rule, the alternate-bases
\* syntax rule and the coordinate rule was answered with the first of the three
C7_Witness ==
    /\ Validated
    /\ {3, 5, 6} \subseteq ViolatedRules
    /\ verr = InvalidReferenceBases

\* C8: in every variant a request whose reference-bases value is empty is
\* rejected: it is never accepted, no predicate is built for it and it is not
\* executed.
C8_EmptyReferenceBasesRejected ==
    (pc \in {"parsed", "validated", "done"} /\ q.ReferenceBases = << >>)
        => /\ pc # "validated"
           /\ ~executed
           /\ predicate = << >>

\* C9: with a non-empty name and valid reference bases, an empty alternateBases
\* is the missing-alternate-bases error in the strict variant and is no error
\* in the main variant, where the alternate-bases error is reported only for a
\* non-empty value outside the allele alphabet.
C9_AlternateBasesRequiredWhenStrict ==
    (Validated /\ q.ReferenceName # << >> /\ IsAllele(q.ReferenceBases))
        => /\ (variant = "strict" /\ q.AlternateBases = << >>)
                => verr = MissingAlternateBases /\ pc = "done" /\ ~executed
           /\ (variant = "main" /\ q.AlternateBases = << >>)
                => verr \notin {MissingAlternateBases, InvalidAlternateBases}
           /\ (variant = "main" /\ q.AlternateBases = << >> /\ ViolatedRules = {})
                => verr = NoError
           /\ (variant = "main" /\ verr = InvalidAlternateBases)
                => q.AlternateBases # << >> /\ ~IsAllele(q.AlternateBases)

\* the strict variant rejected a query for its empty alternateBases
C9_Witness ==
    /\ Validated
    /\ variant = "strict"
    /\ q.ReferenceName # << >>
    /\ IsAllele(q.ReferenceBases)
    /\ q.AlternateBases = << >>
    /\ verr = MissingAlternateBases

\* the main variant accepted a query with an empty alternateBases
C9_WitnessMain ==
    /\ Accepted
    /\ variant = "main"
    /\ q.AlternateBases = << >>

\* the predicate made of the reference-name and reference-bases equalities only
NameAndBasesPredicate ==
    <<"reference_name", "=", "'">> \o q.ReferenceName \o <<"'">>
    \o <<"AND">>
    \o <<"reference_bases", "=", "'">> \o q.ReferenceBases \o <<"'">>

\* a query with a name, valid reference bases and nothing else
Unconstrained ==
    /\ q.ReferenceName # << >>
    /\ IsAllele(q.ReferenceBases)
    /\ q.AlternateBases = << >>
    /\ \A f \in CoordFields : ~IsSet(f)

\* C10: in the variants that permit unconstrained coordinates (main, coords), a
\* query with a name, valid reference bases, no alternate bases and no
\* coordinate field is accepted, and the predicate built for it is exactly the
\* reference-name equality AND the reference-bases equality.
C10_UnconstrainedAccepted ==
    (Validated /\ variant \in {"main", "coords"} /\ Unconstrained)
        => /\ verr = NoError
           /\ executed => predicate = NameAndBasesPredicate

\* the main variant executed an unconstrained query
C10_Witness ==
    /\ variant = "main"
    /\ Unconstrained
    /\ executed
    /\ predicate = NameAndBasesPredicate
    /\ resp.exists = Ptr(TRUE)

-----------------------------------------------------------------------------
(* Reading a predicate back: its constraints, their kinds, and what the     *)
(* coordinate constraints mean for a row of the variant table               *)

\* the predicate cut at its AND tokens
RECURSIVE SplitOnAnd(_, _, _)
SplitOnAnd(tokens, current, done) ==
    IF tokens = << >> THEN Append(done, current)
    ELSE IF Head(tokens) = "AND" THEN SplitOnAnd(Tail(tokens), << >>, Append(done, current))
    ELSE SplitOnAnd(Tail(tokens), Append(current, Head(tokens)), done)

IsNotParen(t) == t \notin {"(", ")"}

\* the comparisons of the predicate, without the parentheses around them
Atoms(p) ==
    LET cut == SplitOnAnd(p, << >>, << >>)
    IN  [i \in 1..Len(cut) |-> SelectSeq(cut[i], IsNotParen)]

Mentions(atom, t) == \E i \in 1..Len(atom) : atom[i] = t

Kind(atom) ==
    IF atom = << >> THEN "other"
    ELSE IF Mentions(atom, "v.start") \/ Mentions(atom, "v.end") THEN "coord"
    ELSE IF atom[1] = "reference_name" THEN "name"
    ELSE IF atom[1] = "reference_bases" THEN "ref"
    ELSE IF atom[1] \in {"alternate_bases",
                         "(SELECT count(*) FROM UNNEST(alternate_bases) AS alt WHERE alt IN ("}
    THEN "alt"
    ELSE "other"

Rank(kind) ==
    CASE kind = "name" -> 1 [] kind = "ref" -> 2 [] kind = "alt" -> 3
      [] kind = "coord" -> 4 [] OTHER -> 5

CountKind(p, kind) == Cardinality({i \in 1..Len(Atoms(p)) : Kind(Atoms(p)[i]) = kind})

\* name first, then reference bases, then alternate bases, then coordinates,
\* each of the three string constraints present exactly when its field is
\* non-empty
InFixedOrder(p) ==
    LET atoms == Atoms(p) IN
    /\ Kind(atoms[1]) = "name"
    /\ \A i, j \in 1..Len(atoms) : i < j => Rank(Kind(atoms[i])) <= Rank(Kind(atoms[j]))
    /\ CountKind(p, "name") = 1
    /\ CountKind(p, "ref") = (IF q.ReferenceBases # << >> THEN 1 ELSE 0)
    /\ CountKind(p, "alt") = (IF q.AlternateBases # << >> THEN 1 ELSE 0)
    /\ CountKind(p, "other") = 0

\* a predicate was built for the validated query q
Built == executed /\ predicate # << >>

\* C11: in the variants that build the predicate with Query.whereClause (main,
\* strict, coords) the constraints come in the order reference name, reference
\* bases, alternate bases, coordinates: the name first, the bases constraints
\* present exactly when their field is non-empty, the coordinate constraint
\* last.
C11_FixedOrder ==
    (Built /\ variant \in FullVariants) => InFixedOrder(predicate)

\* the main variant built a predicate with all four kinds of constraint
C11_Witness ==
    /\ Built
    /\ variant = "main"
    /\ q.AlternateBases # << >>
    /\ IsSet("Start") /\ IsSet("End")
    /\ CountKind(predicate, "alt") = 1
    /\ CountKind(predicate, "coord") = 2

\* C11 as stated, for every validated query of every variant
C11_FixedOrderEveryVariant ==
    Built => InFixedOrder(predicate)

\* rows of the variant table: start and end columns around the queried values
RowBound == MaxCoord + 2

Rows == [start : 0..RowBound, end : 0..RowBound]

\* the value of one side of a comparison on a row
TermValue(t, row) ==
    IF t = "v.start" THEN row.start
    ELSE IF t = "v.end" THEN row.end
    ELSE CHOOSE n \in 0..RowBound : ToString(n) = t

\* a comparison "left op right" evaluated on a row
HoldsOn(atom, row) ==
    LET l == TermValue(atom[1], row)
        r == TermValue(atom[3], row)
    IN  /\ Len(atom) = 3
        /\ CASE atom[2] = "="  -> l = r
             [] atom[2] = "<=" -> l <= r
             [] atom[2] = "<"  -> l < r
             [] OTHER          -> FALSE

\* the row satisfies every coordinate comparison of the predicate
MatchesCoordinates(p, row) ==
    \A i \in 1..Len(Atoms(p)) : Kind(Atoms(p)[i]) = "coord" => HoldsOn(Atoms(p)[i], row)

\* C12: for every validated query with start set (a precise query) outside the
\* single-point variant, the coordinate constraint of the predicate is exact
\* equality: a row satisfies it exactly when its start column equals start and,
\* if end is set too, its end column equals end; with end unset the end column
\* is not constrained.
C12_PreciseIsExactEquality ==
    (Built /\ variant # "legacy" /\ IsSet("Start"))
    => \A row \in Rows :
          MatchesCoordinates(predicate, row)
          <=> /\ row.start = Deref(q.Start)
              /\ IsSet("End") => row.end = Deref(q.End)

\* a precise query with start and end set was built, and another with start alone
C12_Witness ==
    /\ Built /\ variant = "main" /\ IsSet("Start") /\ IsSet("End")
    /\ Deref(q.Start) # Deref(q.End)
    /\ CountKind(predicate, "coord") = 2

C12_WitnessStartOnly ==
    /\ Built /\ variant = "coords" /\ IsSet("Start") /\ ~IsSet("End")
    /\ CountKind(predicate, "coord") = 1

\* C13: for every validated query with the four range fields set (an imprecise
\* query) the coordinate constraint is the closed containment
\* startMin <= start column <= startMax and endMin <= end column <= endMax,
\* each bound inclusive and read from its own field.
C13_ImpreciseIsClosedRange ==
    (Built /\ variant \in FullVariants /\ ImpreciseMode)
    => \A row \in Rows :
          MatchesCoordinates(predicate, row)
          <=> /\ Deref(q.StartMin) <= row.start /\ row.start <= Deref(q.StartMax)
              /\ Deref(q.EndMin) <= row.end /\ row.end <= Deref(q.EndMax)

\* an imprecise query whose four bounds are not all equal was built
C13_Witness ==
    /\ Built /\ variant = "main" /\ ImpreciseMode
    /\ Deref(q.StartMin) < Deref(q.StartMax)
    /\ Deref(q.EndMin) = Deref(q.EndMax)
    /\ Deref(q.StartMin) # Deref(q.EndMin)
    /\ CountKind(predicate, "coord") = 4

\* C14: in the single-point variant the predicate for coordinate c is the
\* half-open containment start column <= c and c < end column: a row matches
\* exactly when its interval [start, end) contains c, so the row (c, c+1)
\* matches and the row (c+1, c+2) does not.
C14_HalfOpenContainment ==
    (Built /\ variant = "legacy")
    => LET c == Deref(q.Start) IN
       /\ \A row \in Rows :
             MatchesCoordinates(predicate, row) <=> (row.start <= c /\ c < row.end)
       /\ MatchesCoordinates(predicate, [start |-> c, end |-> c + 1])
       /\ ~MatchesCoordinates(predicate, [start |-> c + 1, end |-> c + 2])

\* the failure code the client reads: the errorCode of the JSON body in the
\* JSON variants (whose HTTP status line stays 200), the HTTP status elsewhere
ReportedCode(r) == IF r.kind = "json" THEN r.errorCode ELSE ToString(r.status)

Failed(r) == r.kind # "none" /\ r.exists = Nil

\* C15: a request that fails validation is answered with code 400 and one whose
\* execution fails with code 500; no validation failure carries 500 and no
\* execution failure carries 400.
C15_FailureCodes ==
    (pc = "done" /\ Failed(resp))
    => /\ resp.stage = "validate" => (verr # NoError /\ ReportedCode(resp) = "400")
       /\ resp.stage = "execute" => (result.err # NoError /\ ReportedCode(resp) = "500")
       /\ (verr # NoError /\ ~executed) => ReportedCode(resp) = "400"
       /\ (executed /\ result.err # NoError) => ReportedCode(resp) = "500"

\* the main variant answered an execution failure
C15_Witness ==
    /\ pc = "done" /\ variant = "main" /\ executed
    /\ collab.fail = "query"
    /\ resp.stage = "execute" /\ resp.errorCode = "500"

\* the coords variant answered a validation failure
C15_WitnessValidation ==
    /\ pc = "done" /\ variant = "coords" /\ ~executed
    /\ verr # NoError
    /\ resp.stage = "validate" /\ resp.status = 400

\* the string literals of a predicate as the database reads them: a quote
\* opens a literal and the next quote closes it
RECURSIVE Literals(_, _, _, _)
Literals(tokens, inside, current, done) ==
    IF tokens = << >>
    THEN [closed |-> ~inside, literals |-> done]
    ELSE IF Head(tokens) = "'"
    THEN IF inside
         THEN Literals(Tail(tokens), FALSE, << >>, Append(done, current))
         ELSE Literals(Tail(tokens), TRUE, << >>, done)
    ELSE Literals(Tail(tokens), inside,
                  IF inside THEN Append(current, Head(tokens)) ELSE current, done)

\* the string values the construction puts into the predicate of q
StringValues ==
    <<q.ReferenceName, q.ReferenceBases>>
    \o (IF q.AlternateBases # << >> THEN <<q.AlternateBases>> ELSE << >>)

\* C16: whatever the string fields of an accepted query hold, the predicate is
\* read back as the constraints of the construction and nothing else: its
\* string literals are exactly the values of the fields, every literal is
\* closed, and it has one constraint per rendered field and coordinate
\* comparison.
C16_StructurePreserved ==
    Built
    => LET read == Literals(predicate, FALSE, << >>, << >>) IN
       /\ read.closed
       /\ read.literals = StringValues
       /\ CountKind(predicate, "other") = 0

\* C18: from the moment the query is parsed until the request is answered,
\* that is across ValidateInput, whether it accepts or rejects, and across the
\* building of the predicate in Execute, no step changes any of the nine fields
\* of the query, nor the configuration.
C18_QueryUnchanged ==
    [][(pc \in {"parsed", "validated"}) => (q' = q /\ cfgOK' = cfgOK /\ variant' = variant)]_vars

\* a query with bases and coordinates went through validation and the builder
C18_Witness ==
    /\ pc = "done" /\ Built /\ variant = "main"
    /\ q.AlternateBases # << >>
    /\ IsSet("Start") /\ IsSet("End")

\* a query with coordinates was rejected by validation
C18_WitnessRejected ==
    /\ pc = "done" /\ ~executed /\ variant = "main"
    /\ verr # NoError
    /\ IsSet("End") /\ IsSet("StartMin")

\* C19: whenever Execute has been called, it reports exists = true exactly
\* when the collaborator answered without failure a row count greater than
\* zero; when creating the client, running the query or reading the row fails
\* it reports exists = false together with an error, and the response carries
\* the value it reported.
C19_ExistsIffRows ==
    executed
    => /\ result.exists <=> (collab.fail = "" /\ collab.count > 0)
       /\ collab.fail \in {"client", "query", "read"}
          => (~result.exists /\ result.err # NoError)
       /\ collab.fail = "" => (result.err = NoError /\ resp.exists = Ptr(result.exists))

\* Execute reported a variant that exists
C19_Witness ==
    /\ executed /\ collab.fail = "" /\ collab.count > 0
    /\ result.exists /\ resp.exists = Ptr(TRUE)

\* Execute reported no variant for a count of zero, and a failure of the read
C19_WitnessNone ==
    /\ executed /\ collab.fail = "" /\ collab.count = 0
    /\ ~result.exists /\ resp.exists = Ptr(FALSE)

C19_WitnessFailure ==
    /\ executed /\ collab.fail = "read"
    /\ ~result.exists /\ Failed(resp)

\* the request was answered at a step before Execute
Rejected == pc = "done" /\ resp.stage \in {"config", "parse", "validate"}

\* C20: in every variant Execute / genomeExists is called, and the predicate
\* built, only for a query whose parsing and validation returned no error: the
\* call is made from the validated position of the handler, and a request
\* answered with a configuration, parsing or validation failure has called
\* nothing and built no predicate.
C20_ExecuteOnlyAfterValidation ==
    /\ executed => (verr = NoError /\ resp.stage = "execute"
                    /\ (variant \in FullVariants => ValidateInput(variant, q) = NoError))
    /\ predicate # << >> => executed
    /\ verr # NoError => (~executed /\ collab = NoOutcome /\ predicate = << >>)
    /\ Rejected => (~executed /\ collab = NoOutcome /\ predicate = << >>)
    /\ pc \in {"idle", "parsed"} => ~executed

\* a rejected request of each kind, and an executed one
C20_Witness ==
    /\ Rejected /\ variant = "main" /\ resp.stage = "validate"
    /\ verr # NoError /\ ~executed
    /\ q.ReferenceName # << >>

C20_WitnessExecuted ==
    /\ executed /\ variant = "startend" /\ verr = NoError /\ predicate # << >>

\* C21: no state is shared across requests: no handler step writes the
\* server's BeaconInfo, which every Query response reads, and the apiVersion
\* of a Query response is the value the server holds at that step whatever
\* About requests were handled before it or are being handled with it.
C21_NoSharedState ==
    [][/\ beaconInfo' = beaconInfo
       /\ (resp' # resp /\ resp'.kind = "json")
          => resp'.apiVersion = beaconInfo.APIVersion]_vars

\* the predicate has the comparison  left op right  among its constraints
HasAtom(p, left, op, right) == \E i \in 1..Len(Atoms(p)) : Atoms(p)[i] = <<left, op, right>>

\* C22: unset and zero are different states of a coordinate field in parsing,
\* validation and building: an empty form value parses to an unset field and
\* the text 0 to a field set to 0; an accepted query with start = 0 counts as
\* precise and its predicate has the constraint v.start = 0 (and, with end = 0
\* too, 0 = v.end); a query with the six fields unset gets no coordinate
\* constraint.
C22_UnsetIsNotZero ==
    /\ getFormValueInt(<< >>) = [ok |-> TRUE, ptr |-> Nil]
    /\ getFormValueInt(<<"0">>) = [ok |-> TRUE, ptr |-> Ptr(0)]
    /\ Ptr(0) # Nil
    /\ (Validated /\ q.ReferenceBases # << >> /\ q.Start = Ptr(0)) => precisePosition(q)
    /\ (Built /\ variant # "legacy" /\ q.Start = Ptr(0))
       => /\ HasAtom(predicate, "v.start", "=", "0")
          /\ q.End = Ptr(0) => HasAtom(predicate, "0", "=", "v.end")
          /\ q.End = Nil => ~Mentions(predicate, "v.end")
    /\ (Built /\ \A f \in CoordFields : ~IsSet(f)) => CountKind(predicate, "coord") = 0
    /\ (Built /\ variant \in FullVariants /\ ImpreciseMode /\ q.StartMin = Ptr(0))
       => HasAtom(predicate, "0", "<=", "v.start")

\* a query with start = 0 and no end was accepted and built
C22_Witness ==
    /\ Built /\ variant = "main"
    /\ q.Start = Ptr(0) /\ q.End = Nil
    /\ HasAtom(predicate, "v.start", "=", "0")

\* a query with no coordinate field was built
C22_WitnessUnset ==
    /\ Built /\ variant = "coords"
    /\ \A f \in CoordFields : ~IsSet(f)
    /\ CountKind(predicate, "coord") = 0

\* the builder read through a nil pointer while it rendered the predicate
ReadNil(p) == Mentions(p, ToString(NilDereference))

\* C23: for every query value, accepted by ValidateInput or not, the predicate
\* the builder renders holds no value read through a nil pointer: start, end,
\* startMin, startMax, endMin and endMax are printed only where the builder
\* has tested them to be set, so every number in the predicate is the value of
\* a set field.
C23_NoNilDereference ==
    pc = "built"
    => /\ ~ReadNil(predicate)
       /\ \A i \in 1..Len(Atoms(predicate)) :
             Kind(Atoms(predicate)[i]) = "coord"
             => \E f \in CoordFields :
                   IsSet(f) /\ Mentions(Atoms(predicate)[i], ToString(Deref(q[f])))

\* the builder ran on a query ValidateInput rejects: start unset, end set and
\* three of the four range fields set
C23_Witness ==
    /\ pc = "built" /\ variant = "main"
    /\ ValidateInput(variant, q) # NoError
    /\ ~IsSet("Start") /\ IsSet("End")
    /\ IsSet("StartMin") /\ IsSet("StartMax") /\ IsSet("EndMin") /\ ~IsSet("EndMax")
    /\ CountKind(predicate, "coord") = 0

\* the builder ran on a query with start alone
C23_WitnessStartOnly ==
    /\ pc = "built" /\ variant = "startend"
    /\ IsSet("Start") /\ ~IsSet("End")
    /\ CountKind(predicate, "coord") = 1

\* the coordinate comparisons of the predicate that use the operator op
CoordinateAtoms(p, op) ==
    {i \in 1..Len(Atoms(p)) : Kind(Atoms(p)[i]) = "coord" /\ Atoms(p)[i][2] = op}

\* C24: the predicate built for a query ValidateInput accepted holds at most
\* one coordinate constraint: the equalities of the precise constraint or the
\* four bounds of the range constraint, never both, although the builder of
\* the main variant adds the two independently.
C24_AtMostOneCoordinateConstraint ==
    (Built /\ variant \in FullVariants)
    => /\ CoordinateAtoms(predicate, "=") = {} \/ CoordinateAtoms(predicate, "<=") = {}
       /\ Len(bqCoordinatesToWhereClauseMain(q)) <= 1
       /\ Cardinality(CoordinateAtoms(predicate, "=")) <= 2
       /\ Cardinality(CoordinateAtoms(predicate, "<=")) \in {0, 4}

\* an accepted query of the main variant with start and three of the four
\* range fields set: the builder's two tests are both reached, one clause added
C24_Witness ==
    /\ Built /\ variant = "main"
    /\ IsSet("Start") /\ ~IsSet("End")
    /\ IsSet("StartMin") /\ IsSet("StartMax") /\ IsSet("EndMin") /\ ~IsSet("EndMax")
    /\ Cardinality(CoordinateAtoms(predicate, "=")) = 1
    /\ CoordinateAtoms(predicate, "<=") = {}

\* an accepted imprecise query
C24_WitnessImprecise ==
    /\ Built /\ variant = "main" /\ ImpreciseMode
    /\ Cardinality(CoordinateAtoms(predicate, "<=")) = 4
    /\ CoordinateAtoms(predicate, "=") = {}

\* the comparison by which a set coordinate field constrains the predicate
FieldAtom(f) ==
    LET v == ToString(Deref(q[f])) IN
    CASE f = "Start"    -> <<"v.start", "=", v>>
      [] f = "End"      -> <<v, "=", "v.end">>
      [] f = "StartMin" -> <<v, "<=", "v.start">>
      [] f = "StartMax" -> <<"v.start", "<=", v>>
      [] f = "EndMin"   -> <<v, "<=", "v.end">>
      [] f = "EndMax"   -> <<"v.end", "<=", v>>

\* C25: in the predicate built for a query ValidateInput accepted, every
\* coordinate field that is set appears as its comparison: no accepted query
\* has a set start, end, startMin, startMax, endMin or endMax that the
\* predicate leaves out.
C25_EverySetFieldConstrains ==
    (Built /\ variant \in FullVariants)
    => \A f \in CoordFields :
          IsSet(f) => \E i \in 1..Len(Atoms(predicate)) : Atoms(predicate)[i] = FieldAtom(f)

\* the error member of a JSON response is non-null
HasError(r) == r.errorCode # ""

\* C26: every response the JSON Query handlers write once parsing succeeded
\* carries exactly one of exists and error: a request that failed validation
\* or execution is answered with an error and a null exists, a request that
\* succeeded with a non-null exists, the value Execute reported, and a null
\* error.
C26_ExistsXorError ==
    (pc = "done" /\ resp.kind = "json")
    => /\ HasError(resp) <=> resp.exists = Nil
       /\ (verr # NoError \/ (executed /\ result.err # NoError))
          => (HasError(resp) /\ resp.exists = Nil /\ resp.message # << >>)
       /\ (verr = NoError /\ executed /\ result.err = NoError)
          => (~HasError(resp) /\ resp.exists = Ptr(result.exists))

\* a JSON response to a query that failed validation
C26_Witness ==
    /\ pc = "done" /\ resp.kind = "json" /\ variant = "strict"
    /\ verr # NoError /\ ~executed
    /\ HasError(resp) /\ resp.exists = Nil

\* a JSON response to a failed execution, and one to a success
C26_WitnessExecution ==
    /\ pc = "done" /\ resp.kind = "json" /\ variant = "main"
    /\ executed /\ result.err # NoError
    /\ HasError(resp) /\ resp.exists = Nil

C26_WitnessSuccess ==
    /\ pc = "done" /\ resp.kind = "json" /\ variant = "main"
    /\ executed /\ result.exists
    /\ ~HasError(resp) /\ resp.exists = Ptr(TRUE)

====
